---------------------------- MODULE Spec2Model ----------------------------
(***************************************************************************)
(* A model of tap-dynamics-bc: the page loop of TrialBalanceStream, the    *)
(* cursor handling of dynamicsBcStream, the validity check of              *)
(* TapDynamicsBCAuth and the environment validation behind url_base.       *)
(*                                                                         *)
(* Text is modelled as a sequence of atoms.  An atom is a one-element      *)
(* piece of text: a letter, a separator ("&", "?"), a percent escape       *)
(* ("%26") or a query key together with its "=" ("aid=", "$skiptoken=").   *)
(* Python's None and the empty string are both false in every test the     *)
(* code applies to them ("if next_page_token", "if aid_value and ..."),    *)
(* and both are the empty sequence here.                                   *)
(***************************************************************************)
EXTENDS Integers, Sequences, FiniteSets, TLC

(***************************************************************************)
(* Bounds of the model.                                                    *)
(***************************************************************************)
\* number of calendar years the clock and the configured start date range over
NumYears == 3
\* number of days of a model year (day 1 is 01-01, the last day is 12-31)
DaysPerYear == 2
\* most pages the server has in one year window
MaxPages == 4

None == <<>>

(***************************************************************************)
(* Text helpers.                                                           *)
(***************************************************************************)
\* str.split(sep) for a one-atom separator
RECURSIVE Split(_, _)
Split(s, sep) ==
    IF \A i \in 1..Len(s) : s[i] # sep
    THEN <<s>>
    ELSE LET i == CHOOSE k \in 1..Len(s) :
                     s[k] = sep /\ \A j \in 1..(k - 1) : s[j] # sep
         IN  <<SubSeq(s, 1, i - 1)>> \o Split(SubSeq(s, i + 1, Len(s)), sep)

\* parts[-1]
LastOf(parts) == parts[Len(parts)]

\* urllib.parse.unquote on one atom: the escape of "&" is decoded
UnquoteAtom(a) == IF a = "%26" THEN "&" ELSE a

\* urllib.parse.unquote
Unquote(s) == [i \in 1..Len(s) |-> UnquoteAtom(s[i])]

\* urlparse(link).query: the text after the first "?"
UrlQuery(link) ==
    IF \A i \in 1..Len(link) : link[i] # "?"
    THEN <<>>
    ELSE LET i == CHOOSE k \in 1..Len(link) :
                     link[k] = "?" /\ \A j \in 1..(k - 1) : link[j] # "?"
         IN  SubSeq(link, i + 1, Len(link))

\* parse_qs(query).get(key): the decoded values of the pieces "key=value" with a
\* non-blank value, in order of appearance (blank values are dropped).  A key
\* atom that is not in first place of its piece is part of the value.
RECURSIVE ValuesOf(_, _)
ValuesOf(pieces, key) ==
    IF pieces = <<>> THEN <<>>
    ELSE LET p == Head(pieces)
             rest == ValuesOf(Tail(pieces), key)
         IN  IF Len(p) >= 2 /\ p[1] = key
             THEN <<Unquote(Tail(p))>> \o rest
             ELSE rest

ParseQsGet(query, key) == ValuesOf(Split(query, "&"), key)

(***************************************************************************)
(* dynamicsBcStream.get_next_page_token (client.py 71-96).                 *)
(* response_link is the value at $.['@odata.nextLink'], None when absent.  *)
(***************************************************************************)
get_next_page_token_skiptoken_only(response_link) ==
    LET skiptoken_value == ParseQsGet(UrlQuery(response_link), "$skiptoken=")
    IN  IF skiptoken_value # <<>>
        THEN <<"&", "aid=", "&", "$skiptoken=">> \o skiptoken_value[1]
        ELSE None

get_next_page_token(response_link) ==
    LET query_params == UrlQuery(response_link)
        aid_value == ParseQsGet(query_params, "aid=")
        skiptoken_value == ParseQsGet(query_params, "$skiptoken=")
    IN  IF aid_value # <<>> /\ skiptoken_value # <<>>
        THEN <<"&", "aid=">> \o aid_value[1] \o <<"&", "$skiptoken=">> \o skiptoken_value[1]
        ELSE None

\* the aid / $skiptoken parameters get_url_params builds from a token
\* (client.py 109-111, streams.py 757-759)
PageParams(next_page_token) ==
    IF next_page_token # None
    THEN [aid |-> Split(LastOf(Split(next_page_token, "aid=")), "&")[1],
          skiptoken |-> LastOf(Split(next_page_token, "$skiptoken="))]
    ELSE [aid |-> None, skiptoken |-> None]

(***************************************************************************)
(* Dates.  A date is a year and a day of that year; day 1 is January 1st   *)
(* and day DaysPerYear is December 31st.                                   *)
(***************************************************************************)
Years == 1..NumYears
Days == 1..DaysPerYear
Dates == [y : Years, d : Days]

\* the day after a date
NextDate(a) == IF a.d < DaysPerYear THEN [y |-> a.y, d |-> a.d + 1]
               ELSE [y |-> a.y + 1, d |-> 1]

(***************************************************************************)
(* The server.  A response carries the rows under $.value and the          *)
(* '@odata.nextLink' (None when the response has none).  In a year window *)
(* the server has total_pages pages, at most MaxPages: every response but  *)
(* the last carries a next link, the last one carries none.                *)
(***************************************************************************)
NextLink(aid, skiptoken) ==
    <<"U", "?", "aid=">> \o aid \o <<"&", "$skiptoken=">> \o skiptoken

Links == { None,
           NextLink(<<"a">>, <<"s">>),
           <<"U", "?", "$skiptoken=", "t", "&", "$top=", "n", "&", "aid=", "b">>,
           <<"U", "?", "$skiptoken=", "s">> }

RowLists == { <<>>, <<1, 2>> }

Responses == [rows : RowLists, link : Links]

\* the responses the server may give to the n-th request of a year window
\* of total pages
ResponsesAt(n, total) == { r \in Responses : (r.link = None) <=> (n >= total) }

(***************************************************************************)
(* State.                                                                  *)
(***************************************************************************)
VARIABLES
    \* configuration and clock
    start_date,         \* config["start_date"], parsed to a date
    today,              \* the date datetime.now(timezone.utc) returns
    \* TrialBalanceStream.request_records
    pc,                 \* position in request_records
    current_date,       \* the date read at line 770
    year,               \* the loop variable of the outer loop
    context,            \* the context mapping handed to request_records
    next_page_token,
    previous_token,
    resp,               \* the response being processed
    row,                \* index of the next row of resp to yield
    \* history of the current year window, and of the run
    requests,           \* the requests issued in this year window
    filter,             \* the $filter of the latest request
    responses,          \* the responses the server gave in this year window
    emitted,            \* the rows yielded in this year window
    total_pages,        \* the number of pages the server has in this year window
    windows             \* the years whose page loop was started, in order

pageVars == <<start_date, today, pc, current_date, year, context, next_page_token,
              previous_token, resp, row, requests, filter, responses, emitted,
              total_pages, windows>>

\* the authenticator
VARIABLES
    expires_in,         \* TapDynamicsBCAuth.expires_in
    last_refreshed,     \* TapDynamicsBCAuth.last_refreshed
    utils_now,          \* utils.now(), in ticks
    valid_call          \* the latest call of is_token_valid: its inputs and result

authVars == <<expires_in, last_refreshed, utils_now, valid_call>>

\* the streams' base URLs and the environment catalog
VARIABLES
    environment_name,   \* config["environment_name"]
    server_envs,        \* what the catalog endpoint answers
    envs_list,          \* per stream: self.envs_list
    url_base_cache,     \* per stream: the cached value of url_base
    catalog_requests,   \* requests made to the catalog endpoint
    sent,               \* per stream: requests made under the tenant base URL
    records,            \* per stream: records emitted
    failed,             \* an exception left url_base: the run is over
    validate_call       \* the latest call of validate_env: arguments and result

envVars == <<environment_name, server_envs, envs_list, url_base_cache,
             catalog_requests, sent, records, failed, validate_call>>

\* two configurations checked against one catalog
VARIABLES
    first_name,         \* a configured name
    second_name,        \* a variant of it
    shared_envs,        \* the catalog both are checked against
    first_outcome,      \* what url_base gives for first_name
    second_outcome      \* what url_base gives for second_name

variantVars == <<first_name, second_name, shared_envs, first_outcome, second_outcome>>

\* an incremental stream and the rows the server holds for it
VARIABLES
    starting_timestamp, \* get_starting_timestamp(context): the watermark, in ticks
    server_values,      \* the replication-key values of the server's rows, in ticks
    sent_filter,        \* the $filter of the request
    emitted_values      \* the replication-key values of the rows emitted

filterVars == <<starting_timestamp, server_values, sent_filter, emitted_values>>

\* the traversal companies -> general_ledger_entries -> gl_entries_dimensions
VARIABLES
    company_pages,      \* the server's pages of company records
    tree_pc,            \* position in the traversal
    page_index,         \* number of company pages fetched
    page_records,       \* the records of the company page being processed
    record_index,       \* index of the company record being processed
    child_context,      \* the context derived from the company record, or None
    ledger_rows,        \* the ledger entries fetched for the company
    ledger_index,       \* index of the ledger entry being processed
    gl_context,         \* the context derived from the ledger entry
    item_context,       \* the context derived from an item record of the company
    dims_token,         \* next_page_token of the dimensions page loop
    dims_log,           \* the dimension requests made for the ledger entry
    previous_entry,     \* the dimensions page loop of the ledger entry before
    last_response,      \* the latest response: resource, origin and status
    child_context_call, \* the latest call of get_child_context
    output,             \* the records emitted for the company and below it
    logged,             \* the messages logged for the company and below it
    error               \* the exception that ended the run, if any

treeVars == <<company_pages, tree_pc, page_index, page_records, record_index,
              child_context, ledger_rows, ledger_index, gl_context, dims_token,
              dims_log, previous_entry, last_response, child_context_call,
              output, logged, error, item_context>>

\* the authenticator the streams share
VARIABLES
    instances,          \* the authenticator objects made, in order
    single_instance,    \* the instance the metaclass keeps: its index, 0 for none
    stream_auth,        \* per stream: the instance its last access returned
    granted,            \* the latest token the token endpoint issued
    shared_now,         \* utils.now(), in ticks
    headers_call        \* the latest reading of auth_headers

sharedVars == <<instances, single_instance, stream_auth, granted, shared_now,
                headers_call>>

\* a next link and the request that follows it
VARIABLES
    next_link,          \* the '@odata.nextLink' of the response, None when absent
    link_aid,           \* the value of aid the server put into the link
    link_skiptoken,     \* the value of $skiptoken the server put into the link
    cursor_token,       \* what get_next_page_token returned
    cursor_params,      \* the aid and $skiptoken of the following request
    cursor_pc           \* the response is read, or the next request is built

cursorVars == <<next_link, link_aid, link_skiptoken, cursor_token, cursor_params,
                cursor_pc>>

\* the parameters of a stream's first request
VARIABLES
    param_stream,       \* the stream whose parameters are built
    bookmark,           \* the watermark the run before left for the partition
    config_start_date,  \* config["start_date"] as a timestamp, in ticks
    url_params          \* the $filter of the parameters get_url_params returns

paramVars == <<param_stream, bookmark, config_start_date, url_params>>

\* the parts of the program that follow the incremental filter
laterVars == <<treeVars, sharedVars, cursorVars, paramVars>>

vars == <<pageVars, authVars, envVars, variantVars, filterVars, laterVars>>

NoResponse == [rows |-> <<>>, link |-> None]

(***************************************************************************)
(* TrialBalanceStream.get_url_params (streams.py 730-761).                 *)
(***************************************************************************)
\* lines 746-752: the $filter of a year, with the clock reading now
\* le_end_of_day tells the two formats of the upper bound apart:
\* "%Y-%m-%dT23:59:59.999Z" of the current date, and the plain "year-12-31"
YearFilterWholeYear(yr, now) ==
    [ge |-> [y |-> yr, d |-> 1],
     le |-> [y |-> yr, d |-> DaysPerYear],
     le_end_of_day |-> FALSE]

YearFilter(yr, now) ==
    [ge |-> [y |-> yr, d |-> 1],
     le |-> IF yr = now.y THEN now ELSE [y |-> yr, d |-> DaysPerYear],
     le_end_of_day |-> (yr = now.y)]

\* context.get("year", start_date.year)
ContextYearOfStartDate(ctx, start) == start.y

ContextYear(ctx, start) == IF "year" \in DOMAIN ctx THEN ctx.year ELSE start.y

TrialBalance_get_url_params(ctx, token, start, now) ==
    [filter |-> YearFilter(ContextYear(ctx, start), now),
     aid |-> PageParams(token).aid,
     skiptoken |-> PageParams(token).skiptoken]

(***************************************************************************)
(* TrialBalanceStream.request_records (streams.py 764-794).                *)
(***************************************************************************)
\* line 773: the condition of the outer loop
YearInRange(yr, cur) == yr <= cur.y

\* line 786: the loop test
LoopDetectedNever(next_token, prev_token) == FALSE

LoopDetected(next_token, prev_token) ==
    next_token # None /\ next_token = prev_token

\* line 791
FinishedAfterOnePage(next_token) == TRUE

Finished(next_token) == next_token = None

\* datetime.now() moves on between two readings of the clock
Tick ==
    /\ pc \in {"start", "request"}
    /\ NextDate(today) \in Dates
    /\ today' = NextDate(today)
    /\ UNCHANGED <<filter, start_date, pc, current_date, year, context, next_page_token,
                   previous_token, resp, row, requests, responses, emitted, total_pages,
                   windows>>
    /\ UNCHANGED <<authVars, envVars, variantVars, filterVars, laterVars>>

\* lines 766-772
Start ==
    /\ pc = "start"
    /\ current_date' = today
    /\ year' = start_date.y
    /\ pc' = "year_check"
    /\ UNCHANGED <<filter, start_date, today, context, next_page_token, previous_token,
                   resp, row, requests, responses, emitted, total_pages,
                   windows>>
    /\ UNCHANGED <<authVars, envVars, variantVars, filterVars, laterVars>>

\* lines 773-777: the outer loop test and the set-up of one year window.
\* resp and previous_token keep the values of the window before; both are
\* assigned again (lines 780, 784) before they are read, and the model
\* clears them here with the histories of the window.
YearCheck ==
    /\ pc = "year_check"
    /\ IF YearInRange(year, current_date)
       THEN /\ context' = [k \in (DOMAIN context) \cup {"year"} |->
                              IF k = "year" THEN year ELSE context[k]]
            /\ next_page_token' = None
            /\ previous_token' = None
            /\ resp' = NoResponse
            /\ row' = 1
            /\ requests' = <<>>
            /\ responses' = <<>>
            /\ emitted' = <<>>
            /\ total_pages' \in 1..MaxPages
            /\ windows' = Append(windows, year)
            /\ pc' = "request"
       ELSE /\ pc' = "done"
            /\ UNCHANGED <<context, next_page_token, previous_token, resp, row,
                           requests, responses, emitted, total_pages,
                   windows>>
    /\ UNCHANGED <<start_date, today, current_date, year, filter>>
    /\ UNCHANGED <<authVars, envVars, variantVars, filterVars, laterVars>>

\* line 780: one request, with the parameters get_url_params builds, and the
\* server's response to it
Request ==
    /\ pc = "request"
    /\ LET params == TrialBalance_get_url_params(context, next_page_token,
                                                 start_date, today)
       IN  /\ requests' = Append(requests,
                                 [token |-> next_page_token,
                                  year |-> params.filter.ge.y,
                                  aid |-> params.aid,
                                  skiptoken |-> params.skiptoken])
           /\ filter' = params.filter
    /\ Len(responses) < total_pages
    /\ \E r \in ResponsesAt(Len(responses) + 1, total_pages) :
           /\ resp' = r
           /\ responses' = Append(responses, r)
    /\ row' = 1
    /\ pc' = "rows"
    /\ UNCHANGED <<start_date, today, current_date, year, context, next_page_token,
                   previous_token, emitted, total_pages, windows>>
    /\ UNCHANGED <<authVars, envVars, variantVars, filterVars, laterVars>>

\* lines 781-782: one row of the response is yielded
YieldRow ==
    /\ pc = "rows"
    /\ row <= Len(resp.rows)
    /\ emitted' = Append(emitted, resp.rows[row])
    /\ row' = row + 1
    /\ UNCHANGED <<filter, start_date, today, pc, current_date, year, context,
                   next_page_token, previous_token, resp, requests, responses,
                   total_pages, windows>>
    /\ UNCHANGED <<authVars, envVars, variantVars, filterVars, laterVars>>

\* lines 784-791: the cursor is advanced
Advance ==
    /\ pc = "rows"
    /\ row > Len(resp.rows)
    /\ previous_token' = next_page_token
    /\ next_page_token' = get_next_page_token(resp.link)
    /\ pc' = IF LoopDetected(next_page_token', previous_token') THEN "raised"
             ELSE IF Finished(next_page_token') THEN "next_year"
             ELSE "request"
    /\ UNCHANGED <<filter, start_date, today, current_date, year, context, resp, row,
                   requests, responses, emitted, total_pages,
                   windows>>
    /\ UNCHANGED <<authVars, envVars, variantVars, filterVars, laterVars>>

\* line 794
NextYear ==
    /\ pc = "next_year"
    /\ year' = year + 1
    /\ pc' = "year_check"
    /\ UNCHANGED <<filter, start_date, today, current_date, context, next_page_token,
                   previous_token, resp, row, requests, responses, emitted,
                   total_pages, windows>>
    /\ UNCHANGED <<authVars, envVars, variantVars, filterVars, laterVars>>

\* the configured start date: only its year is read (lines 740-744, 769-772)
StartDates == { dt \in Dates : dt.d = DaysPerYear }

PageInit ==
    /\ start_date \in StartDates
    /\ today \in Dates
    /\ pc = "start"
    /\ current_date = today
    /\ year = start_date.y
    /\ context = [company_id |-> "c1", company_name |-> "n1"]
    /\ next_page_token = None
    /\ previous_token = None
    /\ resp = NoResponse
    /\ row = 1
    /\ requests = <<>>
    /\ filter = YearFilter(start_date.y, today)
    /\ responses = <<>>
    /\ emitted = <<>>
    /\ total_pages = 1
    /\ windows = <<>>

PageNext ==
    \/ Tick
    \/ Start
    \/ YearCheck
    \/ Request
    \/ YieldRow
    \/ Advance
    \/ NextYear

(***************************************************************************)
(* Properties of the page loop.                                            *)
(***************************************************************************)
\* the cursor get_next_page_token computes from the i-th response of the window
CursorOf(i) == get_next_page_token(responses[i].link)

\* the rows of the responses given so far, in response and row order
RECURSIVE RowsOf(_)
RowsOf(rs) == IF rs = <<>> THEN <<>> ELSE Head(rs).rows \o RowsOf(Tail(rs))

\* a cursor computed in this window equals a cursor computed earlier in it
CursorRepeats ==
    \E i, j \in 1..Len(responses) :
        i < j /\ CursorOf(i) # None /\ CursorOf(i) = CursorOf(j)

\* no cursor repeats, and every response before the server's last page gave a
\* cursor (the last page has no next link)
WellFormedWindow ==
    /\ ~CursorRepeats
    /\ \A i \in 1..Len(responses) : i < total_pages => CursorOf(i) # None

\* C1: a cursor that was already used in the page loop is never used again:
\* no two requests of one year window are sent with the same cursor (the loop
\* raises instead of issuing the second one).
C1_NoCursorIsUsedTwice ==
    \A i, j \in 1..Len(requests) :
        i < j => requests[i].token # requests[j].token

\* C2: when get_next_page_token returns a non-null cursor equal to the cursor
\* sent with the request that produced the response, the loop raises: no
\* request is sent with that cursor, and once raised no request is issued and
\* no year window is started.
C2_ImmediateRepeatState ==
    /\ \A i \in 1..(Len(requests) - 1) : requests[i].token # requests[i + 1].token
    /\ (/\ pc # "rows"
        /\ Len(requests) > 0
        /\ next_page_token # None
        /\ next_page_token = requests[Len(requests)].token) => pc = "raised"
    /\ pc = "raised" => /\ next_page_token # None
                        /\ next_page_token = previous_token
                        /\ previous_token = requests[Len(requests)].token

C2_RaisedIsFinal ==
    pc = "raised" => /\ pc' = "raised"
                     /\ requests' = requests
                     /\ windows' = windows
                     /\ emitted' = emitted

C2_ImmediateRepeatRaises ==
    [](C2_ImmediateRepeatState) /\ [][C2_RaisedIsFinal]_pageVars

\* a loop-detection error with a further year window still to come
C2_Witness ==
    /\ pc = "raised"
    /\ Len(requests) >= 2
    /\ year < current_date.y

\* C3: for a sequence of responses in which no cursor repeats and whose last
\* response has no next link, the loop never raises and never stops early: it
\* ends with one request per response of the server, every row of every
\* response emitted in order, and a null cursor; the loop never asks for a
\* page after the server's last one, so the number of requests never exceeds
\* the number of pages.
C3_LoopTerminatesAfterLastPage ==
    /\ Len(requests) = Len(responses)
    /\ Len(requests) <= total_pages
    /\ (pc = "raised") => CursorRepeats
    /\ (pc = "next_year" /\ WellFormedWindow) =>
           /\ Len(requests) = total_pages
           /\ responses[Len(responses)].link = None
           /\ emitted = RowsOf(responses)
           /\ next_page_token = None
    /\ (pc = "request") => Len(responses) < total_pages

\* a window of three pages or more with distinct cursors, fully fetched
C3_Witness ==
    /\ pc = "next_year"
    /\ total_pages >= 3
    /\ WellFormedWindow
    /\ Len(emitted) >= 3

\* the years from a to b, ascending
YearsFromTo(a, b) == [i \in 1..(IF b >= a THEN b - a + 1 ELSE 0) |-> a + i - 1]

\* C6: the extraction runs one page loop per year S..C in ascending order
\* (none when S > C), where S is the year of the configured start date and C
\* the year of the current date read when the extraction starts; each request
\* of year y carries the filter [y-01-01, y-12-31], with the current date as
\* upper bound when y is the year of the current date.
C6_YearWindows ==
    /\ pc # "start" =>
           \E n \in 0..Len(YearsFromTo(start_date.y, current_date.y)) :
               windows = SubSeq(YearsFromTo(start_date.y, current_date.y), 1, n)
    /\ pc = "done" => windows = YearsFromTo(start_date.y, current_date.y)
    /\ pc = "rows" =>
           /\ requests[Len(requests)].year = windows[Len(windows)]
           /\ filter.ge = [y |-> year, d |-> 1]
           /\ filter.le = IF year = today.y THEN today
                          ELSE [y |-> year, d |-> DaysPerYear]
           /\ filter.le_end_of_day = (year = today.y)

\* three windows, the last one bounded by a current date before December 31st
C6_Witness ==
    /\ pc = "done"
    /\ Len(windows) = 3
    /\ filter.ge.y = current_date.y
    /\ filter.le = today
    /\ today.d < DaysPerYear

\* C23: the year windows are independent and sequential.  The first request
\* of every year is sent with a null cursor and without aid and $skiptoken;
\* every request of a year carries the date filter of that year; before a
\* request is sent every row of the responses received in the year has been
\* emitted, and a year window is started only when every row of the year
\* before has been emitted and its cursor is null.
C23_WindowState ==
    /\ Len(requests) >= 1 =>
           /\ requests[1].token = None
           /\ requests[1].aid = None
           /\ requests[1].skiptoken = None
    /\ \A i \in 1..Len(requests) :
           /\ Len(windows) >= 1
           /\ requests[i].year = windows[Len(windows)]
           /\ pc \notin {"year_check", "done"} => requests[i].year = year
    /\ pc = "rows" => /\ filter.ge = [y |-> year, d |-> 1]
                      /\ filter.le.y = year
    /\ pc \in {"request", "next_year"} => emitted = RowsOf(responses)
    /\ pc \in {"next_year", "year_check", "done"} => next_page_token = None
    /\ \A i, j \in 1..Len(windows) : i < j => windows[i] < windows[j]

C23_WindowStep ==
    /\ windows' # windows =>
           /\ emitted = RowsOf(responses)
           /\ next_page_token = None
           /\ next_page_token' = None
           /\ requests' = <<>>
           /\ windows' = Append(windows, year)
    /\ requests' # requests =>
           (windows' # windows \/ (emitted = RowsOf(responses) /\ windows' = windows))

C23_YearWindowsIndependent ==
    [](C23_WindowState) /\ [][C23_WindowStep]_pageVars

\* the second request of a later year window, sent with the cursor of that
\* window after the rows of its first page were emitted
C23_Witness ==
    /\ pc = "rows"
    /\ Len(windows) >= 2
    /\ Len(requests) = 2
    /\ requests[1].token = None
    /\ requests[2].token # None
    /\ Len(emitted) >= 2
    /\ filter.ge.y = windows[Len(windows)]

(***************************************************************************)
(* TapDynamicsBCAuth (auth.py).  The clock of the authenticator counts     *)
(* TicksPerSecond ticks a second, so that an elapsed time can have a       *)
(* sub-second part.  expires_in is None, an integer or, as the token       *)
(* endpoint sends it, the decimal text of an integer.                      *)
(***************************************************************************)
\* resolution of the authenticator's clock
TicksPerSecond == 2
\* last reading of the authenticator's clock, in ticks
MaxTick == 8
\* longest lifetime a token response declares, in seconds
MaxLifetime == 3

NoLifetime == [kind |-> "none", val |-> 0]
Lifetimes == {NoLifetime} \cup [kind : {"int", "str"}, val : 0..MaxLifetime]

NeverRefreshed == [set |-> FALSE, at |-> 0]
RefreshTimes == {NeverRefreshed} \cup [set : {TRUE}, at : 0..MaxTick]

\* line 26-27: int(self.expires_in) when it is not None
IntOf(e) == IF e.kind = "none" THEN e ELSE [kind |-> "int", val |-> e.val]

\* line 32: self.expires_in > (utils.now() - self.last_refreshed).total_seconds()
NotExpiredOrJustExpired(lifetime, refreshed_at, clock) ==
    lifetime * TicksPerSecond >= clock - refreshed_at

NotExpired(lifetime, refreshed_at, clock) ==
    lifetime * TicksPerSecond > clock - refreshed_at

\* lines 25-34, the value returned
is_token_valid(e, refreshed, clock) ==
    IF ~refreshed.set THEN FALSE
    ELSE IF IntOf(e).kind = "none" \/ IntOf(e).val = 0 THEN TRUE
    ELSE IF NotExpired(IntOf(e).val, refreshed.at, clock) THEN TRUE
    ELSE FALSE

NoCall == [made |-> FALSE, expires_in |-> NoLifetime, last_refreshed |-> NeverRefreshed,
           now |-> 0, result |-> FALSE]

\* time passes
AuthTick ==
    /\ utils_now < MaxTick
    /\ utils_now' = utils_now + 1
    /\ UNCHANGED <<expires_in, last_refreshed, valid_call>>
    /\ UNCHANGED <<pageVars, envVars, variantVars, filterVars, laterVars>>

\* a call of is_token_valid: expires_in is replaced by its integer value
\* (line 27) and the result is returned
IsTokenValid ==
    /\ valid_call' = [made |-> TRUE, expires_in |-> expires_in,
                      last_refreshed |-> last_refreshed, now |-> utils_now,
                      result |-> is_token_valid(expires_in, last_refreshed, utils_now)]
    /\ expires_in' = IntOf(expires_in)
    /\ UNCHANGED <<last_refreshed, utils_now>>
    /\ UNCHANGED <<pageVars, envVars, variantVars, filterVars, laterVars>>

\* the token is refreshed: the inherited update_access_token stores the time
\* of the request and the lifetime the token response declares
UpdateAccessToken ==
    /\ \E e \in Lifetimes : expires_in' = e
    /\ last_refreshed' = [set |-> TRUE, at |-> utils_now]
    /\ UNCHANGED <<utils_now, valid_call>>
    /\ UNCHANGED <<pageVars, envVars, variantVars, filterVars, laterVars>>

\* the fields of the authenticator are plain attributes: is_token_valid is
\* called for every value they can hold
AuthInit ==
    /\ expires_in \in Lifetimes
    /\ utils_now \in 0..MaxTick
    /\ last_refreshed \in { r \in RefreshTimes : r.set => r.at <= utils_now }
    /\ valid_call = NoCall

AuthNext ==
    \/ AuthTick
    \/ IsTokenValid
    \/ UpdateAccessToken

\* seconds elapsed between the last refresh and the call, scaled by TicksPerSecond
ElapsedTicks(c) == c.now - c.last_refreshed.at

\* C4: is_token_valid returns false when no refresh ever happened, whatever
\* the lifetime; otherwise true when the lifetime is zero or unset; otherwise
\* true exactly when the elapsed time since the last refresh is strictly less
\* than the lifetime.
C4_TokenValidity ==
    valid_call.made =>
        /\ ~valid_call.last_refreshed.set => valid_call.result = FALSE
        /\ (/\ valid_call.last_refreshed.set
            /\ (valid_call.expires_in.kind = "none" \/ valid_call.expires_in.val = 0))
               => valid_call.result = TRUE
        /\ (/\ valid_call.last_refreshed.set
            /\ valid_call.expires_in.kind # "none"
            /\ valid_call.expires_in.val # 0)
               => (valid_call.result <=>
                       ElapsedTicks(valid_call) <
                           valid_call.expires_in.val * TicksPerSecond)

\* a call made exactly when the lifetime has elapsed: the token is invalid
C4_Witness ==
    /\ valid_call.made
    /\ valid_call.last_refreshed.set
    /\ valid_call.expires_in.val > 0
    /\ ElapsedTicks(valid_call) = valid_call.expires_in.val * TicksPerSecond
    /\ valid_call.result = FALSE

(***************************************************************************)
(* Environment validation (client.py 16-57, streams.py 677-687).           *)
(* A name is a sequence of letters and "?".                                *)
(***************************************************************************)
\* longest configured environment name
MaxNameLen == 2
\* most entries of the environment catalog
MaxEntries == 2
\* most requests one stream issues
MaxRequests == 2

NameAtoms == {"p", "P", "q", "?"}
EnvNames == UNION { [1..n -> NameAtoms] : n \in 1..MaxNameLen }

EntryNames == { <<"p">>, <<"P">>, <<"q", "p">> }

\* str.lower() on one atom, and on a text
LowerAtom(a) == IF a = "P" THEN "p" ELSE IF a = "Q" THEN "q" ELSE a

Lower(t) == [i \in 1..Len(t) |-> LowerAtom(t[i])]

\* a in b, for two texts
IsSubstring(a, b) ==
    \E i \in 0..(Len(b) - Len(a)) : SubSeq(b, i + 1, i + Len(a)) = a

\* the JSON body of the environment catalog: an object that may hold a "value"
\* list of entries (their names) and may hold other keys
CatalogBodies ==
    { [has_value |-> FALSE, other_keys |-> o, value |-> <<>>] : o \in BOOLEAN }
    \cup { [has_value |-> TRUE, other_keys |-> FALSE, value |-> v] :
               v \in UNION { [1..n -> EntryNames] : n \in 0..MaxEntries } }

\* what the catalog endpoint answers: a body, or an error status
HttpError == [status |-> "error", body |-> [has_value |-> FALSE, other_keys |-> FALSE,
                                            value |-> <<>>]]
CatalogAnswers == {HttpError} \cup [status : {"ok"}, body : CatalogBodies]

\* client.py 16: the class attribute envs_list = None
NoEnvsList == [is_none |-> TRUE, has_value |-> FALSE, other_keys |-> FALSE,
               value |-> <<>>]

AsEnvsList(body) == [is_none |-> FALSE, has_value |-> body.has_value,
                     other_keys |-> body.other_keys, value |-> body.value]

\* line 35: "if self.envs_list": None and the empty object are false
Truthy(envs) == ~envs.is_none /\ (envs.has_value \/ envs.other_keys)

\* lines 23-26: the part of the name before "?"
WholeName(env_name) == env_name

BeforeQuery(env_name) ==
    IF \E i \in 1..Len(env_name) : env_name[i] = "?"
    THEN Split(env_name, "?")[1]
    ELSE env_name

\* lines 48-57: "true" when validate_env returns True, "raise" when it raises
validate_env_exact(envs, env_name) ==
    IF /\ envs.has_value
       /\ \E i \in 1..Len(envs.value) : Lower(envs.value[i]) = Lower(env_name)
    THEN "true" ELSE "raise"

validate_env(envs, env_name) ==
    IF /\ envs.has_value
       /\ \E i \in 1..Len(envs.value) :
              IsSubstring(Lower(envs.value[i]), Lower(env_name))
    THEN "true" ELSE "raise"

\* lines 18-28 and 677-687: url_base with the catalog validate_env reads;
\* "raise" or the environment name put into the URL template
url_base_unchecked(envs, configured) ==
    [outcome |-> "url", env |-> BeforeQuery(configured)]

url_base(envs, configured) ==
    IF validate_env(envs, BeforeQuery(configured)) = "true"
    THEN [outcome |-> "url", env |-> BeforeQuery(configured)]
    ELSE [outcome |-> "raise", env |-> <<>>]

Streams == {"companies", "items", "dimension_values"}

\* url_base is a cached_property of every stream but dimension_values,
\* where it is a property
CachesUrlBase(s) == s # "dimension_values"

NotCached == [set |-> FALSE, url |-> [outcome |-> "raise", env |-> <<>>]]

NoValidation == [made |-> FALSE, env_name |-> <<>>, envs |-> NoEnvsList,
                 result |-> "raise"]

\* a stream issues a request: the URL is url_base + path.  url_base comes
\* from the cache, or is computed: get_environments_list (lines 34-45) takes
\* self.envs_list or fetches the catalog, validate_env checks the name.
StreamRequest(s) ==
    /\ ~failed
    /\ sent[s] < MaxRequests
    /\ IF CachesUrlBase(s) /\ url_base_cache[s].set
       THEN /\ sent' = [sent EXCEPT ![s] = @ + 1]
            /\ records' = [records EXCEPT ![s] = @ + 1]
            /\ UNCHANGED <<envs_list, url_base_cache, catalog_requests, failed,
                           validate_call>>
       ELSE IF ~Truthy(envs_list[s]) /\ server_envs.status = "error"
       THEN \* line 42: validate_response raises on the catalog's answer
            /\ catalog_requests' = catalog_requests + 1
            /\ failed' = TRUE
            /\ UNCHANGED <<envs_list, url_base_cache, sent, records, validate_call>>
       ELSE LET fetch == ~Truthy(envs_list[s])
                envs == IF fetch THEN AsEnvsList(server_envs.body) ELSE envs_list[s]
                url == url_base(envs, environment_name)
            IN  /\ catalog_requests' = IF fetch THEN catalog_requests + 1
                                       ELSE catalog_requests
                /\ envs_list' = [envs_list EXCEPT ![s] = envs]
                /\ validate_call' = [made |-> TRUE,
                                     env_name |-> BeforeQuery(environment_name),
                                     envs |-> envs,
                                     result |-> validate_env(envs,
                                                   BeforeQuery(environment_name))]
                /\ IF url.outcome = "url"
                   THEN /\ url_base_cache' =
                               IF CachesUrlBase(s)
                               THEN [url_base_cache EXCEPT
                                         ![s] = [set |-> TRUE, url |-> url]]
                               ELSE url_base_cache
                        /\ sent' = [sent EXCEPT ![s] = @ + 1]
                        /\ records' = [records EXCEPT ![s] = @ + 1]
                        /\ UNCHANGED failed
                   ELSE /\ failed' = TRUE
                        /\ UNCHANGED <<url_base_cache, sent, records>>
    /\ UNCHANGED <<environment_name, server_envs>>
    /\ UNCHANGED <<pageVars, authVars, variantVars, filterVars, laterVars>>

EnvInit ==
    /\ environment_name \in EnvNames
    /\ server_envs \in CatalogAnswers
    /\ envs_list = [s \in Streams |-> NoEnvsList]
    /\ url_base_cache = [s \in Streams |-> NotCached]
    /\ catalog_requests = 0
    /\ sent = [s \in Streams |-> 0]
    /\ records = [s \in Streams |-> 0]
    /\ failed = FALSE
    /\ validate_call = NoValidation

EnvNext == \E s \in Streams : StreamRequest(s)

\* a catalog entry's lower-cased name is part of the lower-cased name
CatalogAccepts(body, name) ==
    /\ body.has_value
    /\ \E i \in 1..Len(body.value) :
           \E k \in 0..Len(name) : \E n \in 0..(Len(name) - k) :
               Lower(SubSeq(name, k + 1, k + n)) = Lower(body.value[i])

\* the configured name up to its first "?"
RECURSIVE UpToQuestionMark(_)
UpToQuestionMark(name) ==
    IF name = <<>> \/ Head(name) = "?" THEN <<>>
    ELSE <<Head(name)>> \o UpToQuestionMark(Tail(name))

\* C7: over a whole run, with any number of streams and of base-URL
\* constructions, the environment catalog is requested at most once.
C7_CatalogRequestedAtMostOnce == catalog_requests <= 1

\* C8: a request under the tenant base URL is made, and a base URL is kept,
\* only when the catalog accepts the configured name; when url_base raises,
\* no tenant request was made and no record was emitted.
C8_NoRequestBeforeValidation ==
    /\ \A s \in Streams :
           (sent[s] > 0 \/ records[s] > 0 \/ url_base_cache[s].set) =>
               /\ server_envs.status = "ok"
               /\ CatalogAccepts(server_envs.body, UpToQuestionMark(environment_name))
               /\ validate_call.made /\ validate_call.result = "true"
    /\ failed => \A s \in Streams : sent[s] = 0 /\ records[s] = 0

\* requests of two streams, one of them dimension_values, under a name with
\* a query string
C8_Witness ==
    /\ sent["dimension_values"] > 1
    /\ sent["companies"] > 0
    /\ \E i \in 1..Len(environment_name) : environment_name[i] = "?"

\* C10: validate_env returns True exactly when the catalog has an entry whose
\* lower-cased name is a substring of the lower-cased name, and raises
\* otherwise (also for an empty catalog and a body without a value list).
C10_ValidateEnvAcceptsOnSubstring ==
    validate_call.made =>
        /\ validate_call.result \in {"true", "raise"}
        /\ validate_call.result = "true" <=>
               CatalogAccepts(validate_call.envs, validate_call.env_name)
        /\ (~validate_call.envs.has_value \/ validate_call.envs.value = <<>>) =>
               validate_call.result = "raise"

\* accepted through an entry that is a proper part of the name and differs
\* from it in case
C10_Witness ==
    /\ validate_call.made
    /\ validate_call.result = "true"
    /\ \A i \in 1..Len(validate_call.envs.value) :
           /\ validate_call.envs.value[i] # validate_call.env_name
           /\ ~IsSubstring(validate_call.envs.value[i], validate_call.env_name)
    /\ Len(validate_call.env_name) > 1

(***************************************************************************)
(* Two configurations checked against the same catalog: a name and a       *)
(* variant of it.                                                          *)
(***************************************************************************)

\* b is a with letters changed in case only, followed by nothing or by a
\* query string introduced by "?"
IsVariant(a, b) ==
    /\ Len(b) >= Len(a)
    /\ \A i \in 1..Len(a) : LowerAtom(b[i]) = LowerAtom(a[i])
    /\ Len(b) > Len(a) => b[Len(a) + 1] = "?"

\* a variant is one atom longer than the longest name at most
VariantNames == UNION { [1..n -> NameAtoms] : n \in 1..(MaxNameLen + 1) }

UrlBaseFirst ==
    /\ first_outcome = "none"
    /\ first_outcome' = url_base(shared_envs, first_name).outcome
    /\ UNCHANGED <<first_name, second_name, shared_envs, second_outcome>>
    /\ UNCHANGED <<pageVars, authVars, envVars, filterVars, laterVars>>

UrlBaseSecond ==
    /\ second_outcome = "none"
    /\ second_outcome' = url_base(shared_envs, second_name).outcome
    /\ UNCHANGED <<first_name, second_name, shared_envs, first_outcome>>
    /\ UNCHANGED <<pageVars, authVars, envVars, filterVars, laterVars>>

VariantInit ==
    /\ first_name \in EnvNames
    /\ second_name \in { b \in VariantNames : IsVariant(first_name, b) }
    /\ shared_envs \in { AsEnvsList(b) : b \in CatalogBodies }
    /\ first_outcome = "none"
    /\ second_outcome = "none"

VariantNext ==
    \/ UrlBaseFirst
    \/ UrlBaseSecond

\* C9: a name and a variant of it that differs only in letter case or by an
\* appended "?" query string get the same outcome of validation, for every
\* catalog.
C9_VariantsValidateAlike ==
    (first_outcome # "none" /\ second_outcome # "none") =>
        first_outcome = second_outcome

\* a name accepted together with a variant in other case and with a query
C9_Witness ==
    /\ first_outcome = "url"
    /\ second_outcome = "url"
    /\ Len(second_name) > Len(first_name)
    /\ \E i \in 1..Len(first_name) : first_name[i] # second_name[i]

(***************************************************************************)
(* The incremental filter of dynamicsBcStream.get_url_params               *)
(* (client.py 98-112).  A timestamp is a number of ticks, TicksPerSecond   *)
(* to the second, so that it can have a sub-second part.                   *)
(***************************************************************************)
\* last timestamp of the model, in ticks
MaxStamp == 5

Stamps == 0..MaxStamp

\* line 105: strftime("%Y-%m-%dT%H:%M:%SZ") keeps the whole seconds
FormatSeconds(stamp) == stamp \div TicksPerSecond

\* the timestamp the server reads in the text of the filter, in ticks
ParseSeconds(seconds) == seconds * TicksPerSecond

\* lines 103-106: "<replication_key> gt <date>"
IncrementalFilter(start) == [op |-> "gt", date |-> FormatSeconds(start)]

\* the server applies the filter it is sent exactly
ServerSelects(f, values) == { v \in values : v > ParseSeconds(f.date) }

NoFilter == [op |-> "none", date |-> 0]

\* one request of a stream with a replication key, and the rows of the
\* response emitted
IncrementalRequest ==
    /\ sent_filter = NoFilter
    /\ sent_filter' = IncrementalFilter(starting_timestamp)
    /\ emitted_values' = ServerSelects(sent_filter', server_values)
    /\ UNCHANGED <<starting_timestamp, server_values>>
    /\ UNCHANGED <<pageVars, authVars, envVars, variantVars, laterVars>>

FilterInit ==
    /\ starting_timestamp \in Stamps
    /\ server_values \in SUBSET Stamps
    /\ sent_filter = NoFilter
    /\ emitted_values = {}

FilterNext == IncrementalRequest

\* C5: every record emitted in a run has an incremental-field value strictly
\* greater than the watermark supplied as the run's lower bound, whatever the
\* precision of the watermark.
C5_EmittedAboveWatermark ==
    \A v \in emitted_values : v > starting_timestamp

(***************************************************************************)
(* The traversal of the stream tree: the companies, the ledger entries of  *)
(* each company (parent_stream_type = CompaniesStream, streams.py 596) and *)
(* the dimensions of each ledger entry (parent_stream_type =               *)
(* GeneralLedgerEntriesStream, streams.py 626).  A stream is synced once   *)
(* per record of its parent, under the context get_child_context derives   *)
(* from that record.                                                       *)
(***************************************************************************)
\* most company records the server holds
MaxCompanies == 2
\* most ledger entries of one company
MaxLedgerEntries == 2
\* most pages of dimensions of one ledger entry
MaxDimensionPages == 2

\* the status codes the server answers with: success, a 4xx other than 404,
\* 404, and a 5xx that every retry of the request meets again
Statuses == {200, 403, 404, 500}

\* the company records: id and name are non-null and differ
CompanyRecord(i) == [id |-> <<"c", i>>, name |-> <<"n", i>>]

LedgerRecord(k) == [id |-> <<"e", k>>]

ItemRecord(k) == [id |-> <<"i", k>>]

\* the company records of the server, n of them in pages of size records
CompanyPages(n, size) ==
    [p \in 1..((n + size - 1) \div size) |->
        [j \in 1..(IF p * size <= n THEN size ELSE n - (p - 1) * size) |->
            CompanyRecord((p - 1) * size + j)]]

CompanyPageLists ==
    { CompanyPages(n, size) : n \in 1..MaxCompanies, size \in 1..MaxCompanies }

LedgerRowLists ==
    { [k \in 1..n |-> LedgerRecord(k)] : n \in 0..MaxLedgerEntries }

\* the body of a response: the object with the rows under "value" and the
\* next link, or the error object of the API, with or without a message
DataBody(rows, link) ==
    [has_value |-> TRUE, value |-> rows, link |-> link, error |-> "none"]

ErrorBody(e) ==
    [has_value |-> FALSE, value |-> <<>>, link |-> None, error |-> e]

ErrorBodies == { ErrorBody(e) : e \in {"message", "no_message"} }

DimensionRows == { <<>>, << <<"d", 1>> >> }

\* the responses to the n-th request of the dimensions of one ledger entry
DimensionResponsesAt(n) ==
    { [status |-> 200, body |-> DataBody(r, l)] :
          r \in DimensionRows,
          l \in IF n < MaxDimensionPages
                THEN {None, NextLink(<<"a">>, <<"s">>)} ELSE {None} }
    \cup [status : Statuses \ {200}, body : ErrorBodies]

\* client.py 30: records_jsonpath = "$.value[*]" applied to the body
parse_response(body) == IF body.has_value THEN body.value ELSE <<>>

\* RESTStream.validate_response, the one streams.py 646 falls back to and
\* whose FatalAPIError streams.py 55 catches: a 4xx status raises
\* FatalAPIError, a 5xx status RetriableAPIError.  The request decorator
\* retries a RetriableAPIError; a status that every retry meets again leaves
\* the decorated request as RetriableAPIError.
validate_response_found_only(status) ==
    IF status >= 400 /\ status < 500 /\ status # 404 THEN "FatalAPIError"
    ELSE IF status >= 500 THEN "RetriableAPIError"
    ELSE "ok"

validate_response(status) ==
    IF status >= 400 /\ status < 500 THEN "FatalAPIError"
    ELSE IF status >= 500 THEN "RetriableAPIError"
    ELSE "ok"

\* streams.py 642-646: a 404 is logged, every other status goes to the
\* inherited validate_response
GLEntriesDimensions_validate_response_inherited(status) ==
    validate_response(status)

GLEntriesDimensions_validate_response(status) ==
    IF status = 404 THEN "logged" ELSE validate_response(status)

\* a context is a mapping; None is the mapping without keys
IsNone(c) == DOMAIN c = {}

\* what a call of get_child_context does: the requests it makes, the
\* exception that leaves it ("none" when it returns), whether it logs a
\* warning, and the value it returns (None when it returns without one)

\* streams.py 33-59: one request to companyInformation; the context when the
\* request succeeds; a FatalAPIError is caught and logged, and the method
\* returns without a value; any other exception leaves the method
Companies_get_child_context(record, ctx, status) ==
    LET outcome == validate_response(status)
    IN  [requests |-> 1,
         raised |-> IF outcome \in {"ok", "FatalAPIError"} THEN "none" ELSE outcome,
         warned |-> outcome = "FatalAPIError",
         result |-> IF outcome = "ok"
                    THEN [company_id |-> record.id, company_name |-> record.name]
                    ELSE None]

\* streams.py 616-617
GeneralLedgerEntries_get_child_context_of_record(record, ctx) ==
    [requests |-> 0,
     raised |-> "none",
     warned |-> FALSE,
     result |-> [gl_entry_id |-> record.id,
                 company_id |-> record.id,
                 company_name |-> ctx.company_name]]

GeneralLedgerEntries_get_child_context(record, ctx) ==
    [requests |-> 0,
     raised |-> "none",
     warned |-> FALSE,
     result |-> [gl_entry_id |-> record.id,
                 company_id |-> ctx.company_id,
                 company_name |-> ctx.company_name]]

\* streams.py 155-156
Items_get_child_context(record, ctx) ==
    [requests |-> 0,
     raised |-> "none",
     warned |-> FALSE,
     result |-> [company_id |-> ctx.company_id,
                 company_name |-> ctx.company_name]]

NoChildContextCall ==
    [made |-> FALSE, stream |-> "none", record |-> <<>>, status |-> 200,
     requests |-> 0, raised |-> "none", result |-> None]

NoError == [raised |-> "none", resource |-> "none", status |-> 200]

NoPreviousEntry == [seen |-> FALSE, index |-> 0, statuses |-> <<>>, rows |-> 0]

NoLastResponse == [resource |-> "none", origin |-> "none", status |-> 200]

\* a record as it is emitted: the stream, the id and the context values the
\* record is tagged with
Emitted(stream, id, ctx) ==
    [stream |-> stream, id |-> id,
     company_id |-> IF "company_id" \in DOMAIN ctx THEN ctx.company_id ELSE None,
     gl_entry_id |-> IF "gl_entry_id" \in DOMAIN ctx THEN ctx.gl_entry_id ELSE None]

\* the exception that ends the run, with the request that met it
Raised(kind, resource, status) ==
    [raised |-> kind, resource |-> resource, status |-> status]

\* one page of the companies page loop is requested
CompaniesRequest ==
    /\ tree_pc = "companies_request"
    /\ \E status \in Statuses :
           /\ last_response' = [resource |-> "companies", origin |-> "page_loop",
                                status |-> status]
           /\ IF validate_response(status) = "ok"
              THEN /\ page_index' = page_index + 1
                   /\ page_records' = company_pages[page_index + 1]
                   /\ record_index' = 1
                   /\ tree_pc' = "company_record"
                   /\ UNCHANGED error
              ELSE /\ error' = Raised(validate_response(status), "companies", status)
                   /\ tree_pc' = "aborted"
                   /\ UNCHANGED <<page_index, page_records, record_index>>
    /\ UNCHANGED <<company_pages, child_context, ledger_rows, ledger_index,
                   gl_context, dims_token, dims_log, previous_entry,
                   child_context_call, output, logged>>
    /\ UNCHANGED item_context
    /\ UNCHANGED <<pageVars, authVars, envVars, variantVars, filterVars, sharedVars,
                   cursorVars, paramVars>>

\* a company record is processed: its child context is derived (streams.py
\* 33-59) and the record is emitted; with a context the children are synced,
\* without one they are left out
SyncCompanyRecord ==
    /\ tree_pc = "company_record"
    /\ \E status \in Statuses :
           LET record == page_records[record_index]
               call == Companies_get_child_context(record, None, status)
           IN  /\ last_response' = [resource |-> "companyInformation",
                                    origin |-> "get_child_context",
                                    status |-> status]
               /\ child_context_call' =
                      [made |-> TRUE, stream |-> "companies", record |-> record,
                       status |-> status, requests |-> call.requests,
                       raised |-> call.raised, result |-> call.result]
               /\ IF call.raised # "none"
                  THEN /\ error' = Raised(call.raised, "companyInformation", status)
                       /\ tree_pc' = "aborted"
                       /\ UNCHANGED <<child_context, output, logged>>
                  ELSE /\ child_context' = call.result
                       /\ output' = {Emitted("companies", record.id, None)}
                       /\ logged' = IF call.warned
                                    THEN {[level |-> "warning", about |-> record.id]}
                                    ELSE {}
                       /\ tree_pc' = IF IsNone(call.result) THEN "company_next"
                                     ELSE "ledger_request"
                       /\ UNCHANGED error
    /\ ledger_rows' = <<>>
    /\ ledger_index' = 1
    /\ gl_context' = None
    /\ item_context' = None
    /\ dims_token' = None
    /\ dims_log' = <<>>
    /\ previous_entry' = NoPreviousEntry
    /\ UNCHANGED <<company_pages, page_index, page_records, record_index>>
    /\ UNCHANGED <<pageVars, authVars, envVars, variantVars, filterVars, sharedVars,
                   cursorVars, paramVars>>

\* the ledger entries of the company are requested
LedgerRequest ==
    /\ tree_pc = "ledger_request"
    /\ \E status \in Statuses :
           /\ last_response' = [resource |-> "general_ledger_entries",
                                origin |-> "page_loop", status |-> status]
           /\ IF validate_response(status) = "ok"
              THEN /\ ledger_rows' \in LedgerRowLists
                   /\ ledger_index' = 1
                   /\ tree_pc' = "ledger_record"
                   /\ UNCHANGED error
              ELSE /\ error' = Raised(validate_response(status),
                                      "general_ledger_entries", status)
                   /\ tree_pc' = "aborted"
                   /\ UNCHANGED <<ledger_rows, ledger_index>>
    /\ UNCHANGED <<company_pages, page_index, page_records, record_index,
                   child_context, gl_context, dims_token, dims_log, previous_entry,
                   child_context_call, output, logged>>
    /\ UNCHANGED item_context
    /\ UNCHANGED <<pageVars, authVars, envVars, variantVars, filterVars, sharedVars,
                   cursorVars, paramVars>>

\* an item record of the company is processed: its child context is derived
\* (streams.py 155-156) and the record is emitted under the company's context
SyncItemRecord ==
    /\ tree_pc = "ledger_request"
    /\ IsNone(item_context)
    /\ LET record == ItemRecord(1)
           call == Items_get_child_context(record, child_context)
       IN  /\ child_context_call' =
                  [made |-> TRUE, stream |-> "items", record |-> record,
                   status |-> 200, requests |-> call.requests,
                   raised |-> call.raised, result |-> call.result]
           /\ item_context' = call.result
           /\ output' = output \cup {Emitted("items", record.id, child_context)}
    /\ UNCHANGED <<company_pages, tree_pc, page_index, page_records, record_index,
                   child_context, ledger_rows, ledger_index, gl_context, dims_token,
                   dims_log, previous_entry, last_response, logged, error>>
    /\ UNCHANGED <<pageVars, authVars, envVars, variantVars, filterVars, sharedVars,
                   cursorVars, paramVars>>

\* a ledger entry is processed: its child context is derived (streams.py
\* 616-617) and the record is emitted; after the last one the company is done
SyncLedgerRecord ==
    /\ tree_pc = "ledger_record"
    /\ IF ledger_index <= Len(ledger_rows)
       THEN LET record == ledger_rows[ledger_index]
                call == GeneralLedgerEntries_get_child_context(record, child_context)
            IN  /\ child_context_call' =
                       [made |-> TRUE, stream |-> "general_ledger_entries",
                        record |-> record, status |-> 200,
                        requests |-> call.requests, raised |-> call.raised,
                        result |-> call.result]
                /\ gl_context' = call.result
                /\ output' = output \cup
                       {Emitted("general_ledger_entries", record.id, child_context)}
                /\ dims_token' = None
                /\ dims_log' = <<>>
                /\ tree_pc' = "dimensions_request"
       ELSE /\ tree_pc' = "company_next"
            /\ UNCHANGED <<child_context_call, gl_context, output, dims_token,
                           dims_log>>
    /\ UNCHANGED <<company_pages, page_index, page_records, record_index,
                   child_context, ledger_rows, ledger_index, previous_entry,
                   last_response, logged, error>>
    /\ UNCHANGED item_context
    /\ UNCHANGED <<pageVars, authVars, envVars, variantVars, filterVars, sharedVars,
                   cursorVars, paramVars>>

\* one request of the dimensions page loop of a ledger entry: the response is
\* validated (streams.py 642-646), its rows are emitted and the cursor is
\* advanced (client.py 71-96)
DimensionsRequest ==
    /\ tree_pc = "dimensions_request"
    /\ \E r \in DimensionResponsesAt(Len(dims_log) + 1) :
           LET validated == GLEntriesDimensions_validate_response(r.status)
               rows == parse_response(r.body)
               token == get_next_page_token(r.body.link)
               requested == Append(dims_log,
                                   [entry |-> ledger_index, status |-> r.status,
                                    rows |-> Len(rows), token |-> token])
           IN  /\ last_response' = [resource |-> "gl_entries_dimensions",
                                    origin |-> "page_loop", status |-> r.status]
               /\ IF validated \in {"FatalAPIError", "RetriableAPIError"}
                  THEN /\ error' = Raised(validated, "gl_entries_dimensions", r.status)
                       /\ tree_pc' = "aborted"
                       /\ UNCHANGED <<dims_log, dims_token, output, logged,
                                      ledger_index, previous_entry>>
                  ELSE /\ dims_log' = requested
                       /\ output' = output \cup
                              { Emitted("gl_entries_dimensions", rows[i], gl_context) :
                                    i \in 1..Len(rows) }
                       /\ logged' = IF validated = "logged"
                                    THEN logged \cup {[level |-> "info",
                                                       about |-> gl_context.gl_entry_id]}
                                    ELSE logged
                       /\ dims_token' = token
                       /\ IF LoopDetected(token, dims_token)
                          THEN /\ error' = Raised("RuntimeError",
                                                  "gl_entries_dimensions", r.status)
                               /\ tree_pc' = "aborted"
                               /\ UNCHANGED <<ledger_index, previous_entry>>
                          ELSE IF Finished(token)
                          THEN /\ previous_entry' =
                                      [seen |-> TRUE, index |-> ledger_index,
                                       statuses |-> [i \in 1..Len(requested) |->
                                                        requested[i].status],
                                       rows |-> Cardinality(
                                           { o \in output' :
                                               /\ o.stream = "gl_entries_dimensions"
                                               /\ o.gl_entry_id =
                                                      gl_context.gl_entry_id })]
                               /\ ledger_index' = ledger_index + 1
                               /\ tree_pc' = "ledger_record"
                               /\ UNCHANGED error
                          ELSE /\ tree_pc' = "dimensions_request"
                               /\ UNCHANGED <<ledger_index, previous_entry, error>>
    /\ UNCHANGED <<company_pages, page_index, page_records, record_index,
                   child_context, ledger_rows, gl_context, child_context_call>>
    /\ UNCHANGED item_context
    /\ UNCHANGED <<pageVars, authVars, envVars, variantVars, filterVars, sharedVars,
                   cursorVars, paramVars>>

\* the next company record of the page, the next page (the server gives a
\* next link on every page but its last), or the end of the run
NextCompany ==
    /\ tree_pc = "company_next"
    /\ IF record_index < Len(page_records)
       THEN /\ record_index' = record_index + 1
            /\ tree_pc' = "company_record"
       ELSE /\ tree_pc' = IF page_index < Len(company_pages)
                          THEN "companies_request" ELSE "done"
            /\ UNCHANGED record_index
    /\ UNCHANGED <<company_pages, page_index, page_records, child_context,
                   ledger_rows, ledger_index, gl_context, dims_token, dims_log,
                   previous_entry, last_response, child_context_call, output,
                   logged, error>>
    /\ UNCHANGED item_context
    /\ UNCHANGED <<pageVars, authVars, envVars, variantVars, filterVars, sharedVars,
                   cursorVars, paramVars>>

TreeInit ==
    /\ company_pages \in CompanyPageLists
    /\ tree_pc = "companies_request"
    /\ page_index = 0
    /\ page_records = <<>>
    /\ record_index = 1
    /\ child_context = None
    /\ ledger_rows = <<>>
    /\ ledger_index = 1
    /\ gl_context = None
    /\ item_context = None
    /\ dims_token = None
    /\ dims_log = <<>>
    /\ previous_entry = NoPreviousEntry
    /\ last_response = NoLastResponse
    /\ child_context_call = NoChildContextCall
    /\ output = {}
    /\ logged = {}
    /\ error = NoError

TreeNext ==
    \/ CompaniesRequest
    \/ SyncCompanyRecord
    \/ SyncItemRecord
    \/ LedgerRequest
    \/ SyncLedgerRecord
    \/ DimensionsRequest
    \/ NextCompany

(***************************************************************************)
(* Properties of the traversal.                                            *)
(***************************************************************************)
\* the dimension records emitted for a ledger entry of the company
DimensionsOf(entry_id) ==
    { o \in output : o.stream = "gl_entries_dimensions" /\ o.gl_entry_id = entry_id }

\* C11: when a request for gl_entries_dimensions is answered with 404,
\* validate_response does not raise and the run is not ended; the response
\* gives zero records, so that a ledger entry whose request is answered with
\* 404 has no dimension record; the cursor after it is null and the page
\* loop of the entry ends with it; the traversal is then at the following
\* ledger entry.
C11_OptionalNotFoundIsNoData ==
    /\ (last_response.resource = "gl_entries_dimensions" /\ last_response.status = 404)
           => (error.raised = "none" /\ tree_pc # "aborted")
    /\ \A i \in 1..Len(dims_log) :
           dims_log[i].status = 404 =>
               /\ dims_log[i].rows = 0
               /\ dims_log[i].token = None
               /\ i = Len(dims_log)
               /\ tree_pc # "dimensions_request"
               /\ previous_entry.seen
               /\ previous_entry.statuses[Len(previous_entry.statuses)] = 404
               /\ ledger_index = previous_entry.index + 1
    /\ (previous_entry.seen /\ previous_entry.statuses = <<404>>)
           => previous_entry.rows = 0
    /\ (tree_pc = "dimensions_request" /\ previous_entry.seen)
           => /\ ledger_index = previous_entry.index + 1
              /\ ledger_index <= Len(ledger_rows)

\* the entry after one that was answered with 404 has its dimensions emitted
C11_Witness ==
    /\ tree_pc = "ledger_record"
    /\ previous_entry.index = 2
    /\ previous_entry.rows > 0
    /\ [level |-> "info", about |-> <<"e", 1>>] \in logged
    /\ DimensionsOf(<<"e", 1>>) = {}
    /\ DimensionsOf(<<"e", 2>>) # {}

C13_GetChildContextPureAndTotal ==
    child_context_call.made =>
        /\ child_context_call.requests = 0
        /\ child_context_call.raised = "none"
        /\ ~IsNone(child_context_call.result)
        /\ {"company_id", "company_name"} \subseteq DOMAIN child_context_call.result
        /\ child_context_call.result.company_id # None
        /\ child_context_call.result.company_name # None
        /\ child_context_call.stream = "general_ledger_entries" =>
               /\ "gl_entry_id" \in DOMAIN child_context_call.result
               /\ child_context_call.result.gl_entry_id # None

\* C14: a failure to derive the child context of a company record, by a
\* fatal API error or by a transient error that outlasts the retries, does
\* not leave the companies page loop: the run is not ended by it.
C14_ChildContextFailureStaysLocal ==
    ~(tree_pc = "aborted" /\ error.resource = "companyInformation")

\* the traversal is below the company record page_records[record_index]
BelowCompany == tree_pc \in {"ledger_request", "ledger_record", "dimensions_request"}

\* the context carries the id and the name of the company record
OfCompany(ctx, company) ==
    /\ {"company_id", "company_name"} \subseteq DOMAIN ctx
    /\ ctx.company_id = company.id
    /\ ctx.company_name = company.name

\* C22: below a company record every context of the traversal carries the id
\* and the name of that company record: the context of the company, the
\* context get_child_context of items copies from it, and the context of a
\* ledger entry, which adds only gl_entry_id, the id of the ledger entry;
\* every record emitted below the company is tagged with the company's id.
C22_ContextsCarryRootCompany ==
    BelowCompany =>
        LET company == page_records[record_index]
        IN  /\ DOMAIN child_context = {"company_id", "company_name"}
            /\ OfCompany(child_context, company)
            /\ ~IsNone(item_context) =>
                   /\ DOMAIN item_context = {"company_id", "company_name"}
                   /\ OfCompany(item_context, company)
            /\ tree_pc = "dimensions_request" =>
                   /\ DOMAIN gl_context = {"gl_entry_id", "company_id", "company_name"}
                   /\ OfCompany(gl_context, company)
                   /\ gl_context.gl_entry_id = ledger_rows[ledger_index].id
            /\ \A o \in output :
                   /\ o.company_id = (IF o.stream = "companies" THEN None ELSE company.id)
                   /\ o.stream = "gl_entries_dimensions" =>
                          \E k \in 1..ledger_index : o.gl_entry_id = ledger_rows[k].id

\* the dimensions of the second ledger entry of the second company are
\* requested, after an item of that company was processed
C22_Witness ==
    /\ tree_pc = "dimensions_request"
    /\ page_records[record_index] = CompanyRecord(2)
    /\ ledger_index = 2
    /\ gl_context.gl_entry_id = LedgerRecord(2).id
    /\ gl_context.company_id = CompanyRecord(2).id
    /\ ~IsNone(item_context)
    /\ \E o \in output : o.stream = "gl_entries_dimensions"

(***************************************************************************)
(* The authenticator the streams share (auth.py 7-9 and 41-46, client.py   *)
(* 58-61).  Every access to stream.authenticator calls create_for_stream,  *)
(* which calls the class; the SingletonMeta metaclass makes the class hand *)
(* out the instance it made first.  The streams are synced one after the   *)
(* other, so one reading of auth_headers is over before the next begins.   *)
(***************************************************************************)
\* most authenticator objects
MaxInstances == 3

\* the lifetimes the token endpoint declares: the decimal text of a number
\* of seconds, 0 for a token that does not expire
GrantedLifetimes == [kind : {"str"}, val : 0..MaxLifetime]

\* the authenticator as its constructor leaves it
NewAuthenticator ==
    [expires_in |-> NoLifetime, last_refreshed |-> NeverRefreshed, access_token |-> 0]

\* auth.py 41-46 under the metaclass of line 9: the index of the instance
\* the call of the class returns, given the instance kept (0 for none) and
\* the number of instances made so far
create_for_stream_new(single, made) == made + 1

create_for_stream(single, made) == IF single # 0 THEN single ELSE made + 1

NoGrant == [number |-> 0, at |-> 0, lifetime |-> 0, by |-> "none"]

NoHeadersCall ==
    [made |-> FALSE, stream |-> "none", instance |-> 0, now |-> 0,
     valid_before |-> FALSE, refreshed |-> FALSE, token |-> 0,
     previous_grant |-> NoGrant]

\* time passes
SharedTick ==
    /\ shared_now < MaxTick
    /\ shared_now' = shared_now + 1
    /\ UNCHANGED <<instances, single_instance, stream_auth, granted, headers_call>>
    /\ UNCHANGED <<pageVars, authVars, envVars, variantVars, filterVars, treeVars,
                   cursorVars, paramVars>>

\* a stream reads self.authenticator.auth_headers (client.py 37-40, streams.py
\* 38): the authenticator is looked up, is_token_valid (auth.py 25-39) is
\* called and, when it returns False, the token is refreshed: the token
\* endpoint issues its next token and the object stores it with the time of
\* the request and the declared lifetime
AuthHeaders(s) ==
    LET index == create_for_stream(single_instance, Len(instances))
        known == IF index <= Len(instances) THEN instances
                 ELSE Append(instances, NewAuthenticator)
        object == known[index]
        valid == is_token_valid(object.expires_in, object.last_refreshed, shared_now)
    IN  /\ index <= MaxInstances
        /\ single_instance' = IF single_instance # 0 THEN single_instance ELSE index
        /\ stream_auth' = [stream_auth EXCEPT ![s] = index]
        /\ IF valid
           THEN /\ instances' = [known EXCEPT ![index].expires_in = IntOf(@)]
                /\ UNCHANGED granted
           ELSE \E lifetime \in GrantedLifetimes :
                    /\ instances' =
                           [known EXCEPT ![index] =
                               [expires_in |-> lifetime,
                                last_refreshed |-> [set |-> TRUE, at |-> shared_now],
                                access_token |-> granted.number + 1]]
                    /\ granted' = [number |-> granted.number + 1, at |-> shared_now,
                                   lifetime |-> lifetime.val, by |-> s]
        /\ headers_call' =
               [made |-> TRUE, stream |-> s, instance |-> index, now |-> shared_now,
                valid_before |-> valid, refreshed |-> ~valid,
                token |-> instances'[index].access_token,
                previous_grant |-> granted]
        /\ UNCHANGED shared_now
        /\ UNCHANGED <<pageVars, authVars, envVars, variantVars, filterVars, treeVars,
                   cursorVars, paramVars>>

SharedInit ==
    /\ instances = <<>>
    /\ single_instance = 0
    /\ stream_auth = [s \in Streams |-> 0]
    /\ granted = NoGrant
    /\ shared_now = 0
    /\ headers_call = NoHeadersCall

SharedNext ==
    \/ SharedTick
    \/ \E s \in Streams : AuthHeaders(s)

\* the token of a grant is valid at a reading of the clock
GrantValid(g, clock) ==
    /\ g.number > 0
    /\ (g.lifetime = 0 \/ clock - g.at < g.lifetime * TicksPerSecond)

MaxValueLen == 2

ValueAtoms == {"x", "&", "aid=", "$skiptoken="}

\* the values a next link can carry; the empty one is a parameter that is
\* absent or blank
LinkValues == UNION { [1..n -> ValueAtoms] : n \in 0..MaxValueLen }

\* the percent-encoding of a value in a query
QuoteAtom(a) == IF a = "&" THEN "%26" ELSE a

Quote(s) == [i \in 1..Len(s) |-> QuoteAtom(s[i])]

\* the next link for two values, with aid or with $skiptoken in first place
LinkOf(aid, skiptoken, aid_first) ==
    IF aid_first
    THEN <<"U", "?", "aid=">> \o Quote(aid) \o <<"&", "$skiptoken=">> \o Quote(skiptoken)
    ELSE <<"U", "?", "$skiptoken=">> \o Quote(skiptoken) \o <<"&", "aid=">> \o Quote(aid)

\* the next links a response can carry for two values: both parameters in
\* either order and, for an empty value, also the link without the parameter
LinksOf(aid, skiptoken) ==
    { LinkOf(aid, skiptoken, TRUE), LinkOf(aid, skiptoken, FALSE) }
        \cup (IF aid = <<>> /\ skiptoken # <<>>
              THEN { <<"U", "?", "$skiptoken=">> \o Quote(skiptoken) } ELSE {})
        \cup (IF skiptoken = <<>> /\ aid # <<>>
              THEN { <<"U", "?", "aid=">> \o Quote(aid) } ELSE {})
        \cup (IF aid = <<>> /\ skiptoken = <<>>
              THEN { <<"U">>, <<"U", "?", "$top=", "n">> } ELSE {})

NoParams == [aid |-> None, skiptoken |-> None]

\* the response is read: get_next_page_token gives the token; without a
\* token the page loop is finished (streams.py 791), with one
\* get_url_params builds the parameters of the following request from it
FollowNextLink ==
    /\ cursor_pc = "response"
    /\ cursor_token' = get_next_page_token(next_link)
    /\ cursor_params' = PageParams(cursor_token')
    /\ cursor_pc' = IF Finished(cursor_token') THEN "finished" ELSE "next_request"
    /\ UNCHANGED <<next_link, link_aid, link_skiptoken>>
    /\ UNCHANGED <<pageVars, authVars, envVars, variantVars, filterVars, treeVars,
                   sharedVars, paramVars>>

CursorInit ==
    /\ link_aid \in LinkValues
    /\ link_skiptoken \in LinkValues
    /\ next_link \in {None} \cup LinksOf(link_aid, link_skiptoken)
    /\ cursor_token = None
    /\ cursor_params = NoParams
    /\ cursor_pc = "response"

CursorNext == FollowNextLink

\* C18: for every next link whose query carries aid = a and $skiptoken = s,
\* the parameters of the following request are exactly aid = a and
\* $skiptoken = s, whatever a and s contain.
C18_CursorRoundTrip ==
    (/\ cursor_pc = "next_request"
     /\ next_link # None
     /\ link_aid # <<>>
     /\ link_skiptoken # <<>>)
        => /\ cursor_params.aid = link_aid
           /\ cursor_params.skiptoken = link_skiptoken

\* C21: get_next_page_token returns a cursor exactly when the response has a
\* next link whose query carries a non-empty aid and a non-empty $skiptoken;
\* without a next link, or with a next link that lacks either of the two,
\* the cursor is null, the page loop ends and no following request is built.
C21_CursorIffBothParameters ==
    cursor_pc # "response" =>
        /\ cursor_token # None <=>
               (next_link # None /\ link_aid # <<>> /\ link_skiptoken # <<>>)
        /\ cursor_token = None => (cursor_pc = "finished" /\ cursor_params = NoParams)
        /\ cursor_token # None => cursor_pc = "next_request"

\* a next link that carries an aid and no $skiptoken ended the page loop
C21_Witness ==
    /\ cursor_pc = "finished"
    /\ next_link # None
    /\ link_aid # <<>>
    /\ link_skiptoken = <<>>
    /\ cursor_token = None

(***************************************************************************)
(* The $filter a stream sends (client.py 98-112, streams.py 730-761).      *)
(* get_starting_timestamp gives the watermark kept for the partition by    *)
(* the run before and, on a first run, the configured start_date, which    *)
(* the configuration must have (tap.py 68-73).                             *)
(***************************************************************************)
\* the streams whose parameters are built: one without a replication key
\* (streams.py 19), one with a replication key (streams.py 595), and
\* trial_balance, which has one (streams.py 713) and its own get_url_params
ParamStreams == {"companies", "general_ledger_entries", "trial_balance"}

HasReplicationKey(s) == s # "companies"

OverridesUrlParams(s) == s = "trial_balance"

NoBookmark == [set |-> FALSE, at |-> 0]

Bookmarks == {NoBookmark} \cup [set : {TRUE}, at : Stamps]

\* client.py 104: the watermark, or the start date when there is none
get_starting_timestamp(bm, configured) == IF bm.set THEN bm.at ELSE configured

\* client.py 103-106: the $filter of dynamicsBcStream.get_url_params
get_url_params_filter_always(has_key, starting) == IncrementalFilter(starting)

get_url_params_filter(has_key, starting) ==
    IF has_key THEN IncrementalFilter(starting) ELSE NoFilter

NoYearFilter ==
    [ge |-> [y |-> 0, d |-> 0], le |-> [y |-> 0, d |-> 0], le_end_of_day |-> FALSE]

NoUrlParams == [built |-> FALSE, incremental |-> NoFilter, year |-> NoYearFilter]

\* the parameters of the first request of a stream are built
BuildUrlParams ==
    /\ ~url_params.built
    /\ url_params' =
           IF OverridesUrlParams(param_stream)
           THEN [built |-> TRUE,
                 incremental |-> NoFilter,
                 year |-> TrialBalance_get_url_params(context, None, start_date,
                                                      today).filter]
           ELSE [built |-> TRUE,
                 incremental |->
                     get_url_params_filter(HasReplicationKey(param_stream),
                         get_starting_timestamp(bookmark, config_start_date)),
                 year |-> NoYearFilter]
    /\ UNCHANGED <<param_stream, bookmark, config_start_date>>
    /\ UNCHANGED <<pageVars, authVars, envVars, variantVars, filterVars, treeVars,
                   sharedVars, cursorVars>>

ParamsInit ==
    /\ param_stream \in ParamStreams
    /\ bookmark \in Bookmarks
    /\ config_start_date \in Stamps
    /\ url_params = NoUrlParams

ParamsNext == BuildUrlParams

\* C19 as stated: the incremental filter is sent only if the resource has an
\* incremental field and a prior watermark exists; a resource without an
\* incremental field, and a first run with no prior watermark, send none.
C19_FilterOnlyWithWatermark ==
    url_params.built =>
        /\ url_params.incremental.op = "gt" =>
               (HasReplicationKey(param_stream) /\ bookmark.set)
        /\ ~HasReplicationKey(param_stream) => url_params.incremental.op = "none"
        /\ ~bookmark.set => url_params.incremental.op = "none"

\* C19, amended: the incremental filter is sent exactly by the resources
\* that have an incremental field and build their parameters with the base
\* get_url_params; its timestamp is the whole seconds of the prior watermark
\* when one exists and of the configured start date on a first run; a
\* resource without an incremental field sends no filter, and trial_balance
\* sends the date range of its year instead.
C19_FilterOnlyWithIncrementalField ==
    url_params.built =>
        /\ url_params.incremental.op = "gt" <=>
               (HasReplicationKey(param_stream) /\ param_stream # "trial_balance")
        /\ url_params.incremental.op \in {"gt", "none"}
        /\ url_params.incremental.op = "gt" =>
               LET from == IF bookmark.set THEN bookmark.at ELSE config_start_date
               IN  /\ url_params.incremental.date * TicksPerSecond <= from
                   /\ from < (url_params.incremental.date + 1) * TicksPerSecond
        /\ param_stream = "companies" => url_params.year = NoYearFilter
        /\ param_stream = "trial_balance" =>
               /\ url_params.year # NoYearFilter
               /\ url_params.year.ge.d = 1

\* a first run of a stream with an incremental field: the filter is sent
\* with the start date
C19_Witness ==
    /\ url_params.built
    /\ param_stream = "general_ledger_entries"
    /\ ~bookmark.set
    /\ config_start_date > TicksPerSecond
    /\ url_params.incremental.op = "gt"
    /\ url_params.incremental.date > 0

\* C20 as stated: no step of a page loop, the year loop of
\* TrialBalanceStream.request_records included, adds, removes or changes a
\* key of the context it was given.
C20_ContextNeverModified == [][context' = context]_vars

(***************************************************************************)
(* Specifications.  Each one runs one part of the program and leaves the   *)
(* state of the other parts as it is at start.                             *)
(***************************************************************************)

PageIdle ==
    /\ start_date = [y |-> 1, d |-> DaysPerYear]
    /\ today = [y |-> 1, d |-> 1]
    /\ pc = "start"
    /\ current_date = today
    /\ year = start_date.y
    /\ context = [company_id |-> "c1", company_name |-> "n1"]
    /\ next_page_token = None
    /\ previous_token = None
    /\ resp = NoResponse
    /\ row = 1
    /\ requests = <<>>
    /\ filter = YearFilter(start_date.y, today)
    /\ responses = <<>>
    /\ emitted = <<>>
    /\ total_pages = 1
    /\ windows = <<>>

AuthIdle ==
    /\ expires_in = NoLifetime
    /\ last_refreshed = NeverRefreshed
    /\ utils_now = 0
    /\ valid_call = NoCall

EnvIdle ==
    /\ environment_name = <<"p">>
    /\ server_envs = HttpError
    /\ envs_list = [s \in Streams |-> NoEnvsList]
    /\ url_base_cache = [s \in Streams |-> NotCached]
    /\ catalog_requests = 0
    /\ sent = [s \in Streams |-> 0]
    /\ records = [s \in Streams |-> 0]
    /\ failed = FALSE
    /\ validate_call = NoValidation

FilterIdle ==
    /\ starting_timestamp = 0
    /\ server_values = {}
    /\ sent_filter = NoFilter
    /\ emitted_values = {}

VariantIdle ==
    /\ first_name = <<"p">>
    /\ second_name = <<"p">>
    /\ shared_envs = NoEnvsList
    /\ first_outcome = "none"
    /\ second_outcome = "none"

TreeIdle ==
    /\ company_pages = CompanyPages(1, 1)
    /\ tree_pc = "companies_request"
    /\ page_index = 0
    /\ page_records = <<>>
    /\ record_index = 1
    /\ child_context = None
    /\ ledger_rows = <<>>
    /\ ledger_index = 1
    /\ gl_context = None
    /\ item_context = None
    /\ dims_token = None
    /\ dims_log = <<>>
    /\ previous_entry = NoPreviousEntry
    /\ last_response = NoLastResponse
    /\ child_context_call = NoChildContextCall
    /\ output = {}
    /\ logged = {}
    /\ error = NoError

SharedIdle ==
    /\ instances = <<>>
    /\ single_instance = 0
    /\ stream_auth = [s \in Streams |-> 0]
    /\ granted = NoGrant
    /\ shared_now = 0
    /\ headers_call = NoHeadersCall

CursorIdle ==
    /\ link_aid = <<>>
    /\ link_skiptoken = <<>>
    /\ next_link = None
    /\ cursor_token = None
    /\ cursor_params = NoParams
    /\ cursor_pc = "response"

ParamsIdle ==
    /\ param_stream = "companies"
    /\ bookmark = NoBookmark
    /\ config_start_date = 0
    /\ url_params = NoUrlParams

LaterIdle == TreeIdle /\ SharedIdle /\ CursorIdle /\ ParamsIdle

\* the year-partitioned extraction of TrialBalanceStream
InitPage ==
    PageInit /\ AuthIdle /\ EnvIdle /\ VariantIdle /\ FilterIdle /\ LaterIdle

SpecPage == InitPage /\ [][PageNext]_vars

\* the authenticator
InitAuth ==
    AuthInit /\ PageIdle /\ EnvIdle /\ VariantIdle /\ FilterIdle /\ LaterIdle

SpecAuth == InitAuth /\ [][AuthNext]_vars

\* the streams' base URLs and the environment catalog
InitEnv ==
    EnvInit /\ PageIdle /\ AuthIdle /\ VariantIdle /\ FilterIdle /\ LaterIdle

SpecEnv == InitEnv /\ [][EnvNext]_vars

\* url_base for a name and for a variant of it
InitVariant ==
    VariantInit /\ PageIdle /\ AuthIdle /\ EnvIdle /\ FilterIdle /\ LaterIdle

SpecVariant == InitVariant /\ [][VariantNext]_vars

\* the incremental filter of a stream with a replication key
InitFilter ==
    FilterInit /\ PageIdle /\ AuthIdle /\ EnvIdle /\ VariantIdle /\ LaterIdle

SpecFilter == InitFilter /\ [][FilterNext]_vars

\* the traversal of the stream tree
InitTree ==
    TreeInit /\ PageIdle /\ AuthIdle /\ EnvIdle /\ VariantIdle /\ FilterIdle
        /\ SharedIdle /\ CursorIdle /\ ParamsIdle

SpecTree == InitTree /\ [][TreeNext]_vars

\* the authenticator the streams share
InitShared ==
    SharedInit /\ PageIdle /\ AuthIdle /\ EnvIdle /\ VariantIdle /\ FilterIdle
        /\ TreeIdle /\ CursorIdle /\ ParamsIdle

SpecShared == InitShared /\ [][SharedNext]_vars

\* a next link and the request that follows it
InitCursor ==
    CursorInit /\ PageIdle /\ AuthIdle /\ EnvIdle /\ VariantIdle /\ FilterIdle
        /\ TreeIdle /\ SharedIdle /\ ParamsIdle

SpecCursor == InitCursor /\ [][CursorNext]_vars

\* the parameters of a stream's first request, for every configured start
\* date and reading of the clock
InitParams ==
    ParamsInit /\ PageInit /\ AuthIdle /\ EnvIdle /\ VariantIdle /\ FilterIdle
        /\ TreeIdle /\ SharedIdle /\ CursorIdle

SpecParams == InitParams /\ [][ParamsNext]_vars

Spec == SpecPage

=============================================================================
